---- MODULE Spec2Model ----
(***************************************************************************)
(* The timeline engine of atlas-horizonte (src/unnamed/part_001): bounds   *)
(* resolution, greedy interval stacking, and the tooltip controller with   *)
(* its coalesced animation-frame position recompute.                       *)
(*                                                                         *)
(* A date string "YYYY-MM-DD" is the tuple of its numeric fields           *)
(* <<y, m, d>> (or <<y, m>> when the day is absent), i.e. what             *)
(* s.split("-").map(Number) yields: a field that is not numeric is NaN,    *)
(* and "" is <<0>>.  <<>> stands for a date that is no string at all.  A   *)
(* Date object is [y, mo, d] with mo zero-based, as getFullYear() and      *)
(* getMonth() report it.                                                   *)
(***************************************************************************)
EXTENDS Integers, Sequences, FiniteSets, TLC

VARIABLES
  \* ---- the stacking engine applied to one input list
  items,             \* the list handed to renderLane / stackOverlaps
  stacked,           \* <<what stackOverlaps returned for it>>, <<>> before the call
  laneBars,          \* the bars renderLane appended for it
  \* ---- the bounds resolver applied to a list and to the list plus one item
  baseItems,         \* the list L
  extraItem,         \* <<the additional item x>>
  callLog,           \* the calls made so far: "base" (L) or "ext" (L plus x)
  lastBounds,        \* what the latest getTimelineBounds call returned
  resultsBase,       \* every value returned so far for L
  resultsExt,        \* every value returned so far for L plus x
  \* ---- module-level state of the script
  currentStartYear,  \* let currentStartYear (line 13)
  currentEndYear,    \* let currentEndYear (line 14)
  activeBar,         \* let activeBar: index of the bar in the lane, NoBar for null
  rafId,             \* let rafId: the pending frame request's handle, 0 for null
  \* ---- the page
  DATA,              \* the parsed payload: [personas, instituciones]
  cssMonthWidth,     \* the canvas' --month-width: <<px>>, or <<>> when not set
  entityType,        \* #entityType: its value
  entitySelect,      \* #entitySelect: [value, entityType, options, disabled]
  rows,              \* #rows: [kind, message, minHeight, bars]
  grid,              \* #grid: <<startYear, endYear>> its children were built for
  canvasWidth,       \* #canvas: style.width in px, <<>> before it is set
  scrollLeft,        \* #scroller: scrollLeft
  tooltip,           \* #tooltip: [show, ariaHidden, content, pos]
  \* ---- the browser
  frameQueue,        \* number of frame callbacks requested and not yet run
  \* ---- history
  rafAnchor,         \* activeBar at the time the pending callback was requested
  positioned,        \* the bar the tooltip was positioned for since showTip, or NoBar
  last               \* the latest event handled and what its handler did

stackVars == <<items, stacked, laneBars>>
boundsVars == <<baseItems, extraItem, callLog, lastBounds, resultsBase, resultsExt>>
yearVars == <<currentStartYear, currentEndYear>>
pageVars == <<activeBar, rafId, DATA, cssMonthWidth, entityType, entitySelect, rows,
              grid, canvasWidth, scrollLeft, tooltip, frameQueue, rafAnchor,
              positioned, last>>
vars == <<stackVars, boundsVars, yearVars, pageVars>>

\* ------------------------------------------------------------------ bounds
MaxItems == 3         \* longest list handed to stackOverlaps
MonthSpan == 3        \* consecutive months the stacked intervals are drawn from
BoundsMaxItems == 2   \* longest list L handed to getTimelineBounds
MaxCalls == 3         \* getTimelineBounds calls followed in one behaviour
GridYearSpan == 7     \* years after 1997 the grid's range is drawn from

\* ------------------------------------------------------------- constants
START_YEAR_DEFAULT == 1997
\* new Date().getFullYear() at page load; fixed for the life of the page.
END_YEAR_DEFAULT == 2026
MONTH_PX == 18
LANE_BAR_H == 28
STACK_GAP == 6
\* activeBar = null, rafId = null
NoBar == 0
NoRaf == 0
\* The number NaN, which Number() yields for a field that is not numeric;
\* an integer no year, month index or pixel count of the model takes.
NaN == -1000000

\* ------------------------------------------------------------- arithmetic
\* An operation with a NaN operand yields NaN; a comparison with one is false.
IsNaN(x) == x = NaN
Add(a, b) == IF IsNaN(a) \/ IsNaN(b) THEN NaN ELSE a + b
Sub(a, b) == IF IsNaN(a) \/ IsNaN(b) THEN NaN ELSE a - b
Mul(a, b) == IF IsNaN(a) \/ IsNaN(b) THEN NaN ELSE a * b
Gt(a, b) == ~IsNaN(a) /\ ~IsNaN(b) /\ a > b
Le(a, b) == ~IsNaN(a) /\ ~IsNaN(b) /\ a <= b

MathMin(a, b) == IF IsNaN(a) \/ IsNaN(b) THEN NaN ELSE IF a < b THEN a ELSE b
MathMax(a, b) == IF IsNaN(a) \/ IsNaN(b) THEN NaN ELSE IF a > b THEN a ELSE b

\* The variant a slip would produce: the bounds are applied in the other
\* order, so that an upper bound below the lower one wins.
clamp_maxLast(value, min, max) == MathMin(max, MathMax(min, value))

clamp(value, min, max) == MathMax(min, MathMin(max, value))

SetMax(S) == CHOOSE x \in S : \A y \in S : y <= x
SetMin(S) == CHOOSE x \in S : \A y \in S : x <= y

\* ------------------------------------------------------------------ dates
IsLeap(y) == (y % 4 = 0 /\ y % 100 # 0) \/ y % 400 = 0

DaysInMonth(y, mo) ==
  IF mo = 1 THEN (IF IsLeap(y) THEN 29 ELSE 28)
  ELSE IF mo \in {3, 5, 8, 10} THEN 30 ELSE 31

\* new Date(y, monthIndex, day): month and day overflow roll forward.
RECURSIVE NewDate(_, _, _)
NewDate(y, mIdx, day) ==
  LET yy == y + (mIdx \div 12)
      mo == mIdx % 12
  IN  IF day > DaysInMonth(yy, mo)
        THEN NewDate(yy, mo + 1, day - DaysInMonth(yy, mo))
        ELSE [y |-> yy, mo |-> mo, d |-> day]

\* What new Date(...) yields when an argument is NaN: every getter of it
\* returns NaN.
InvalidDate == [y |-> NaN, mo |-> NaN, d |-> NaN]

\* s.split of a value that is no string (the field is absent or null) throws
\* a TypeError; <<>> stands for such a value, as split never yields it.
NoString(s) == Len(s) = 0

\* parseDate(s): const [y, m, d] = s.split("-").map(Number);
\*               return new Date(y, m - 1, d || 1);
\* A field the split did not yield is undefined: m - 1 is then NaN, and
\* d || 1 is 1 (as it is for a day that is 0 or NaN).
parseDate(s) ==
  LET y == s[1]
      m == IF Len(s) >= 2 THEN s[2] ELSE NaN
      d == IF Len(s) >= 3 THEN s[3] ELSE NaN
  IN  IF IsNaN(y) \/ IsNaN(m) THEN InvalidDate
      ELSE NewDate(y, m - 1, IF d = 0 \/ IsNaN(d) THEN 1 ELSE d)

getFullYear(d) == d.y
getMonth(d) == d.mo

monthIndex(d, startYear) == Add(Mul(Sub(getFullYear(d), startYear), 12), getMonth(d))

\* The variant a slip would produce: the last year of the range is left out.
totalMonths_exclusive(startYear, endYear) == Mul(Sub(endYear, startYear), 12)

totalMonths(startYear, endYear) == Mul(Add(Sub(endYear, startYear), 1), 12)

\* ----------------------------------------------------------- bounds resolver
\* items.forEach: fold of Math.min / Math.max over the items' parsed years.
RECURSIVE BoundsFold(_, _, _, _)
BoundsFold(its, i, minYear, maxYear) ==
  IF i > Len(its) THEN [minYear |-> minYear, maxYear |-> maxYear]
  ELSE LET start == getFullYear(parseDate(its[i].inicio))
           end == getFullYear(parseDate(its[i].fin))
       IN  BoundsFold(its, i + 1, MathMin(minYear, start), MathMax(maxYear, end))

\* The variant a slip would produce: widening starts from the bounds of the
\* previous render instead of the defaults.
getTimelineBounds_carry(its) ==
  IF Len(its) = 0
    THEN [startYear |-> currentStartYear, endYear |-> currentEndYear]
    ELSE LET f == BoundsFold(its, 1, currentEndYear, currentStartYear)
         IN  [startYear |-> MathMin(currentStartYear, f.minYear),
              endYear |-> MathMax(currentEndYear, f.maxYear)]

\* The variant a slip would produce: the loop's candidates are taken as the
\* result, without the final Math.min / Math.max against the defaults.
getTimelineBounds_nodefault(its) ==
  IF Len(its) = 0
    THEN [startYear |-> START_YEAR_DEFAULT, endYear |-> END_YEAR_DEFAULT]
    ELSE LET st == getFullYear(parseDate(its[Len(its)].inicio))
             en == getFullYear(parseDate(its[Len(its)].fin))
         IN  [startYear |-> st, endYear |-> en]

getTimelineBounds(its) ==
  LET startYear == START_YEAR_DEFAULT
      endYear == END_YEAR_DEFAULT
  IN  IF Len(its) = 0
        THEN [startYear |-> startYear, endYear |-> endYear]
        ELSE LET f == BoundsFold(its, 1, endYear, startYear)
             IN  [startYear |-> MathMin(startYear, f.minYear),
                  endYear |-> MathMax(endYear, f.maxYear)]

\* ----------------------------------------------------------- stacking engine
\* The comparator of .sort(): a._start - b._start || a._end - b._end
\* (0 and NaN are falsy: the second difference is then the result)
SegCompare(a, b) ==
  LET ds == Sub(a._start, b._start)
  IN  IF ds # 0 /\ ~IsNaN(ds) THEN ds ELSE Sub(a._end, b._end)

\* Array.prototype.sort reads a comparator result of NaN as +0.
SortOrder(v) == IF IsNaN(v) THEN 0 ELSE v

\* Array.prototype.sort is stable: x goes after every element not greater.
RECURSIVE InsertSeg(_, _)
InsertSeg(sorted, x) ==
  IF Len(sorted) = 0 THEN <<x>>
  ELSE IF SortOrder(SegCompare(sorted[Len(sorted)], x)) <= 0 THEN Append(sorted, x)
  ELSE Append(InsertSeg(SubSeq(sorted, 1, Len(sorted) - 1), x), sorted[Len(sorted)])

RECURSIVE SortSegsFrom(_, _, _)
SortSegsFrom(s, i, acc) ==
  IF i > Len(s) THEN acc ELSE SortSegsFrom(s, i + 1, InsertSeg(acc, s[i]))

\* The variant a slip would produce: the segments are left in input order.
SortSegs_unsorted(s) == s

SortSegs(s) == SortSegsFrom(s, 1, <<>>)

\* items.map(...): each item with its month indices relative to startYear.
MapSegs(its, startYear) ==
  [i \in 1..Len(its) |->
     [inicio |-> its[i].inicio, fin |-> its[i].fin, label |-> its[i].label,
      _start |-> monthIndex(parseDate(its[i].inicio), startYear),
      _end |-> monthIndex(parseDate(its[i].fin), startYear)]]

\* The variant a slip would produce: a row is reused by an interval that
\* starts in the month the row's last interval ends.
RowFree_touching(it, rowEnd) == it._start >= rowEnd

\* if (it._start > rowsEnd[r])
RowFree(it, rowEnd) == Gt(it._start, rowEnd)

\* The variant a slip would produce: every interval opens a row of its own.
FirstFreeRow_newRow(it, rowsEnd, r) == Len(rowsEnd)

\* The inner for loop: the first row r (zero-based) that is free, or
\* rowsEnd.length when none is.
RECURSIVE FirstFreeRow(_, _, _)
FirstFreeRow(it, rowsEnd, r) ==
  IF r >= Len(rowsEnd) THEN Len(rowsEnd)
  ELSE IF RowFree(it, rowsEnd[r + 1]) THEN r
  ELSE FirstFreeRow(it, rowsEnd, r + 1)

WithRow(it, r) ==
  [inicio |-> it.inicio, fin |-> it.fin, label |-> it.label,
   _start |-> it._start, _end |-> it._end, _row |-> r]

\* The outer for loop over the sorted segments.
RECURSIVE PlaceSegs(_, _, _, _)
PlaceSegs(segs, i, rowsEnd, placed) ==
  IF i > Len(segs) THEN [segs |-> placed, rowCount |-> Len(rowsEnd)]
  ELSE LET it == segs[i]
           r == FirstFreeRow(it, rowsEnd, 0)
           rowsEnd2 == IF r < Len(rowsEnd)
                         THEN [rowsEnd EXCEPT ![r + 1] = it._end]
                         ELSE Append(rowsEnd, it._end)
       IN  PlaceSegs(segs, i + 1, rowsEnd2, Append(placed, WithRow(it, r)))

stackOverlaps(its, startYear) ==
  PlaceSegs(SortSegs(MapSegs(its, startYear)), 1, <<>>, <<>>)

\* The variant a slip would produce: the least width is two months.
BarOf_wide(it) ==
  LET startX == Add(10, Mul(it._start, MONTH_PX))
      endX == Add(10, Mul(Add(it._end, 1), MONTH_PX))
      w == MathMax(2 * MONTH_PX, Sub(Sub(endX, startX), 2))
      y == 6 + it._row * (LANE_BAR_H + STACK_GAP)
  IN  [left |-> startX, top |-> y, width |-> w, label |-> it.label,
       inicio |-> it.inicio, fin |-> it.fin]

\* renderLane lines 207-217: the bar's left, top and width.
BarOf(it) ==
  LET startX == Add(10, Mul(it._start, MONTH_PX))
      endX == Add(10, Mul(Add(it._end, 1), MONTH_PX))
      w == MathMax(MONTH_PX, Sub(Sub(endX, startX), 2))
      y == 6 + it._row * (LANE_BAR_H + STACK_GAP)
  IN  [left |-> startX, top |-> y, width |-> w, label |-> it.label,
       inicio |-> it.inicio, fin |-> it.fin]

\* renderLane's for loop over segs: one bar per placed interval.
LaneBarsOf(segs) == [k \in 1..Len(segs) |-> BarOf(segs[k])]

\* ---------------------------------------------------------------- inputs
\* "YYYY-MM-01" for the month a (counted in months from year 0).
DateString(a) == <<a \div 12, (a % 12) + 1, 1>>

\* Absolute month of a well-formed date string, read off its fields.
AbsMonth(s) == s[1] * 12 + (s[2] - 1)

\* December of the year before the default start, and the months after it.
StackMonths == {(START_YEAR_DEFAULT - 1) * 12 + 11 + k : k \in 0..(MonthSpan - 1)}

StackIntervals ==
  {[inicio |-> DateString(a), fin |-> DateString(b)] : a \in StackMonths, b \in StackMonths}

\* One year before the default window, one inside it, one after it.
BoundsYears == {START_YEAR_DEFAULT - 1, START_YEAR_DEFAULT + 3, END_YEAR_DEFAULT + 1}

BoundsIntervals ==
  {[inicio |-> <<a, 1, 1>>, fin |-> <<b, 12, 31>>] : a \in BoundsYears, b \in BoundsYears}

Labelled(seq) ==
  [i \in 1..Len(seq) |-> [inicio |-> seq[i].inicio, fin |-> seq[i].fin, label |-> i]]

ListsOf(S, n) == UNION {[1..k -> S] : k \in 0..n}

NoBounds == [startYear |-> 0, endYear |-> 0]

\* ------------------------------------------------- idle values of the groups
StackIdle == items = <<>> /\ stacked = <<>> /\ laneBars = <<>>
BoundsIdle ==
  /\ baseItems = <<>>
  /\ extraItem = <<>>
  /\ callLog = <<>>
  /\ lastBounds = NoBounds
  /\ resultsBase = {}
  /\ resultsExt = {}
YearsInit ==
  /\ currentStartYear = START_YEAR_DEFAULT
  /\ currentEndYear = END_YEAR_DEFAULT
\* The page is not part of the runs that exercise one function alone.
PageIdle ==
  /\ activeBar = 0
  /\ rafId = 0
  /\ DATA = <<>>
  /\ cssMonthWidth = <<>>
  /\ entityType = ""
  /\ entitySelect = <<>>
  /\ rows = <<>>
  /\ grid = <<>>
  /\ canvasWidth = <<>>
  /\ scrollLeft = 0
  /\ tooltip = <<>>
  /\ frameQueue = 0
  /\ rafAnchor = 0
  /\ positioned = 0
  /\ last = <<>>

\* =================================================== the stacking engine
InitStack ==
  /\ items \in {Labelled(l) : l \in ListsOf(StackIntervals, MaxItems)}
  /\ stacked = <<>>
  /\ laneBars = <<>>
  /\ BoundsIdle
  /\ YearsInit
  /\ PageIdle

\* renderTimeline lines 381-392 and renderLane lines 201-261: the bounds'
\* start year is the origin of the month indices, and a bar is appended for
\* every placed interval.
RenderLaneStack ==
  /\ stacked = <<>>
  /\ stacked' = <<stackOverlaps(items, getTimelineBounds(items).startYear)>>
  /\ laneBars' = LaneBarsOf(stacked'[1].segs)
  /\ UNCHANGED <<items, boundsVars, yearVars, pageVars>>

NextStack == RenderLaneStack

SpecStack == InitStack /\ [][NextStack]_vars

\* =================================================== the bounds resolver
InitBounds ==
  /\ baseItems \in {Labelled(l) : l \in ListsOf(BoundsIntervals, BoundsMaxItems)}
  /\ extraItem \in {<<x>> : x \in BoundsIntervals}
  /\ callLog = <<>>
  /\ lastBounds = NoBounds
  /\ resultsBase = {}
  /\ resultsExt = {}
  /\ StackIdle
  /\ YearsInit
  /\ PageIdle

\* L plus x
ExtItems == Labelled(baseItems \o extraItem)

\* renderTimeline lines 381-383: the call, and the result stored as the
\* current bounds.
CallBounds(its) ==
  /\ lastBounds' = getTimelineBounds(its)
  /\ currentStartYear' = lastBounds'.startYear
  /\ currentEndYear' = lastBounds'.endYear

BoundsOfBase ==
  /\ Len(callLog) < MaxCalls
  /\ CallBounds(baseItems)
  /\ callLog' = Append(callLog, "base")
  /\ resultsBase' = resultsBase \cup {lastBounds'}
  /\ UNCHANGED <<baseItems, extraItem, resultsExt, stackVars, pageVars>>

BoundsOfExt ==
  /\ Len(callLog) < MaxCalls
  /\ CallBounds(ExtItems)
  /\ callLog' = Append(callLog, "ext")
  /\ resultsExt' = resultsExt \cup {lastBounds'}
  /\ UNCHANGED <<baseItems, extraItem, resultsBase, stackVars, pageVars>>

NextBounds == BoundsOfBase \/ BoundsOfExt

SpecBounds == InitBounds /\ [][NextBounds]_vars

\* ====================================================== the timeline page
\* The state a handler works on: the script's variables and the elements it
\* writes, with what the handler has done so far (trail: activeBar and the
\* tooltip's visibility after each statement that sets one of them;
\* posWrites: assignments of the tooltip's left/top; frameRuns: runs of
\* updateTooltipPosition; scrollWrites: assignments of the scroller's
\* scrollLeft; thrown: an exception left the handler).
Cur ==
  [activeBar |-> activeBar, rafId |-> rafId, entityType |-> entityType,
   entitySelect |-> entitySelect, rows |-> rows, grid |-> grid,
   canvasWidth |-> canvasWidth, scrollLeft |-> scrollLeft, tooltip |-> tooltip,
   frameQueue |-> frameQueue, rafAnchor |-> rafAnchor, positioned |-> positioned,
   currentStartYear |-> currentStartYear, currentEndYear |-> currentEndYear,
   trail |-> <<>>, posWrites |-> 0, frameRuns |-> 0, scrollWrites |-> 0,
   thrown |-> FALSE]

Snap(m) == <<m.activeBar, m.tooltip.show>>

\* ------------------------------------------------------------ the tooltip
\* The variant a slip would produce: the anchor is left in place.
hideTip_keepAnchor(m) ==
  LET m1 == [m EXCEPT !.tooltip.show = FALSE, !.tooltip.ariaHidden = "true"]
  IN  [m1 EXCEPT !.trail = m.trail \o <<Snap(m1)>>]

\* The variant a slip would produce: the class "show" is left on.
hideTip_keepShown(m) ==
  LET m1 == [m EXCEPT !.tooltip.ariaHidden = "true", !.activeBar = NoBar,
                      !.positioned = NoBar]
  IN  [m1 EXCEPT !.trail = m.trail \o <<Snap(m1)>>]

hideTip(m) ==
  LET m1 == [m EXCEPT !.tooltip.show = FALSE]
      m2 == [m1 EXCEPT !.tooltip.ariaHidden = "true"]
      m3 == [m2 EXCEPT !.activeBar = NoBar, !.positioned = NoBar]
  IN  [m3 EXCEPT !.trail = m.trail \o <<Snap(m1), Snap(m3)>>]

\* requestAnimationFrame returns a non-zero handle.
RafHandle == 1

\* The variant a slip would produce: a request is made whatever is pending.
RafPending_never(m) == FALSE

\* The variant a slip would produce: no request is ever made.
RafPending_always(m) == TRUE

\* if (rafId) return;
RafPending(m) == m.rafId # NoRaf

scheduleTooltipPosition(m) ==
  IF RafPending(m) THEN m
  ELSE [m EXCEPT !.rafId = RafHandle,
                 !.frameQueue = @ + 1,
                 !.rafAnchor = m.activeBar]

showTip(m, bar) ==
  LET m1 == [m EXCEPT !.activeBar = bar, !.positioned = NoBar]
      m2 == [m1 EXCEPT !.tooltip.content = m.rows.bars[bar].label]
      m3 == [m2 EXCEPT !.tooltip.show = TRUE]
      m4 == [m3 EXCEPT !.tooltip.ariaHidden = "false"]
      m5 == [m4 EXCEPT !.trail = m.trail \o <<Snap(m1), Snap(m3)>>]
  IN  scheduleTooltipPosition(m5)

\* ----------------------------------------------------------- the selection
\* nombre is the name's rank in localeCompare order; 0 stands for "".
RECURSIVE InsertByNombre(_, _)
InsertByNombre(sorted, x) ==
  IF Len(sorted) = 0 THEN <<x>>
  ELSE IF sorted[Len(sorted)].nombre <= x.nombre THEN Append(sorted, x)
  ELSE Append(InsertByNombre(SubSeq(sorted, 1, Len(sorted) - 1), x),
              sorted[Len(sorted)])

RECURSIVE SortByNombreFrom(_, _, _)
SortByNombreFrom(l, i, acc) ==
  IF i > Len(l) THEN acc ELSE SortByNombreFrom(l, i + 1, InsertByNombre(acc, l[i]))

ListOf(type) == IF type = "persona" THEN DATA.personas ELSE DATA.instituciones

\* The variant a slip would produce: the option that was selected stays
\* selected when the new list has one of the same value.
SelectedAfterPopulate_keep(m, opts) ==
  IF \E i \in 1..Len(opts) : opts[i].value = m.entitySelect.value
    THEN m.entitySelect.value ELSE ""

\* placeholder.selected = true: the select's value is the placeholder's.
SelectedAfterPopulate(m, opts) == opts[1].value

populateEntities(m, type) ==
  LET sorted == SortByNombreFrom(ListOf(type), 1, <<>>)
      placeholder == [value |-> "", disabled |-> TRUE]
      opts == [i \in 1..Len(sorted) |-> [value |-> sorted[i].id, disabled |-> FALSE]]
      none == IF Len(sorted) = 0 THEN <<[value |-> "", disabled |-> FALSE]>> ELSE <<>>
  IN  [m EXCEPT !.entitySelect =
         [value |-> SelectedAfterPopulate(m, <<placeholder>> \o opts \o none),
          entityType |-> type,
          options |-> <<placeholder>> \o opts \o none,
          disabled |-> (Len(sorted) = 0)]]

\* ----------------------------------------------------------------- the grid
getMonthWidth == IF cssMonthWidth = <<>> THEN 18 ELSE cssMonthWidth[1]

setCanvasWidth(m, startYear, endYear) ==
  [m EXCEPT !.canvasWidth =
     <<Add(Mul(totalMonths(startYear, endYear), getMonthWidth), 20)>>]

\* The variant a slip would produce: the loop stops before totalM.
GridLines_exclusive(startYear, endYear) ==
  [k \in 1..totalMonths(startYear, endYear) |->
     [left |-> 10 + (k - 1) * MONTH_PX, isYear |-> ((k - 1) % 12 = 0)]]

\* The vertical lines buildGrid appends: for (let i = 0; i <= totalM; i++)
\* (i <= NaN is false: no line)
GridLines(startYear, endYear) ==
  LET totalM == totalMonths(startYear, endYear)
  IN  IF IsNaN(totalM) THEN <<>>
      ELSE [k \in 1..(totalM + 1) |->
              [left |-> 10 + (k - 1) * MONTH_PX, isYear |-> ((k - 1) % 12 = 0)]]

\* The year labels buildGrid appends: for (let y = startYear; y <= endYear; y++)
GridLabels(startYear, endYear) ==
  IF ~Le(startYear, endYear) THEN <<>>
  ELSE [k \in 1..(endYear - startYear + 1) |->
          [left |-> 10 + ((k - 1) * 12) * MONTH_PX + 6, text |-> startYear + (k - 1)]]

\* #grid is rebuilt from nothing on every call, so the years it was built
\* for determine its children: GridLines and GridLabels of those years.
buildGrid(m, startYear, endYear) ==
  [setCanvasWidth(m, startYear, endYear) EXCEPT !.grid = <<startYear, endYear>>]

\* ----------------------------------------------------------------- the lane
NoRows == [kind |-> "", message |-> "", minHeight |-> 0, bars |-> <<>>]

clearTimeline(m) == hideTip([m EXCEPT !.rows = NoRows])

renderEmpty(m, message) ==
  [m EXCEPT !.rows = [kind |-> "empty", message |-> message, minHeight |-> 0,
                      bars |-> <<>>]]

renderLane(m, its, mode, startYear) ==
  LET st == stackOverlaps(its, startYear)
      neededH == MathMax(90, st.rowCount * (LANE_BAR_H + STACK_GAP) + 10)
  IN  [m EXCEPT !.rows = [kind |-> mode, message |-> "", minHeight |-> neededH,
                          bars |-> LaneBarsOf(st.segs)]]

\* scroller.scrollLeft = x: the setter takes a value that is not finite as 0.
SetScrollLeft(m, x) ==
  [m EXCEPT !.scrollLeft = IF IsNaN(x) THEN 0 ELSE x, !.scrollWrites = @ + 1]

scrollNearYear(m, year, startYear) ==
  LET idx == Mul(Sub(year, startYear), 12)
  IN  SetScrollLeft(m, MathMax(0, Sub(Mul(idx, getMonthWidth), 200)))

\* new Date() when the button is clicked.
Now == [y |-> END_YEAR_DEFAULT, mo |-> 10, d |-> 2]

scrollToToday(m) ==
  LET idx == monthIndex(Now, m.currentStartYear)
  IN  SetScrollLeft(m, MathMax(0, Sub(Mul(idx, getMonthWidth), 260)))

\* list.find((item) => String(item.id) === String(id)): the indices of the
\* entries with that id; find returns the first.
FindById(list, id) == {i \in 1..Len(list) : list[i].id = id}

\* selected.cargos || []
CargosOf(selected) ==
  IF "cargos" \in DOMAIN selected THEN selected.cargos ELSE <<>>

\* getTimelineBounds lines 78-80: parseDate throws on the first item whose
\* inicio or fin is no string, and nothing catches it.
BoundsThrows(its) ==
  \E i \in 1..Len(its) : NoString(its[i].inicio) \/ NoString(its[i].fin)

\* The variant a slip would produce: the bounds of the previous render stay
\* when no entity is selected.
UnselectedBounds_keep(m) ==
  [startYear |-> m.currentStartYear, endYear |-> m.currentEndYear]

\* Lines 366-367.
UnselectedBounds(m) ==
  [startYear |-> START_YEAR_DEFAULT, endYear |-> END_YEAR_DEFAULT]

\* The variant a slip would produce: an empty list is rendered as a lane.
NoItems_never(its) == FALSE

\* if (!items.length), line 386
NoItems(its) == Len(its) = 0

renderTimeline(m0) ==
  LET m1 == clearTimeline(m0)
      type == m1.entityType
      m2 == IF m1.entitySelect.entityType # type THEN populateEntities(m1, type) ELSE m1
      id == m2.entitySelect.value
      list == ListOf(type)
      found == FindById(list, id)
  IN  IF found = {}
        THEN LET m3 == renderEmpty(m2, "select")
                 m4 == [m3 EXCEPT !.currentStartYear = UnselectedBounds(m3).startYear,
                                  !.currentEndYear = UnselectedBounds(m3).endYear]
             IN  buildGrid(m4, m4.currentStartYear, m4.currentEndYear)
        ELSE LET selected == list[SetMin(found)]
                 its == CargosOf(selected)
             IN  IF BoundsThrows(its) THEN [m2 EXCEPT !.thrown = TRUE]
                 ELSE
                 LET b == getTimelineBounds(its)
                     m3 == [m2 EXCEPT !.currentStartYear = b.startYear,
                                      !.currentEndYear = b.endYear]
                     m4 == buildGrid(m3, m3.currentStartYear, m3.currentEndYear)
                 IN  IF NoItems(its)
                       THEN renderEmpty(m4, "nocargos")
                       ELSE LET m5 == renderLane(m4, its, type, b.startYear)
                            IN  scrollNearYear(m5, Add(m5.currentStartYear, 10),
                                               m5.currentStartYear)

\* ------------------------------------------------------ tooltip position
\* What getBoundingClientRect() reports: [left, top, width, height].
Right(r) == r.left + r.width
Bottom(r) == r.top + r.height

\* The variant a slip would produce: the test against the panel's right
\* edge is missing.
OutOfPanel_noRight(barRect, panelRect) ==
  \/ Right(barRect) < panelRect.left
  \/ Bottom(barRect) < panelRect.top
  \/ barRect.top > Bottom(panelRect)

OutOfPanel(barRect, panelRect) ==
  \/ Right(barRect) < panelRect.left
  \/ barRect.left > Right(panelRect)
  \/ Bottom(barRect) < panelRect.top
  \/ barRect.top > Bottom(panelRect)

\* Lines 321-331; the widths taken are even, so that the halves are whole.
TipPosition(barRect, panelRect, tooltipRect) ==
  LET padding == 12
      left0 == barRect.left - panelRect.left + (barRect.width \div 2)
                 - (tooltipRect.width \div 2)
      top0 == barRect.top - panelRect.top - tooltipRect.height - 10
      top1 == IF top0 < padding THEN Bottom(barRect) - panelRect.top + 10 ELSE top0
  IN  <<clamp(left0, padding, panelRect.width - tooltipRect.width - padding),
        clamp(top1, padding, panelRect.height - tooltipRect.height - padding)>>

\* The variant a slip would produce: the callback measures the bar that was
\* the anchor when it was requested.
AnchorOf_scheduled(m) == IF m.rafAnchor # NoBar THEN m.rafAnchor ELSE m.activeBar

\* activeBar.getBoundingClientRect(): the bar that is measured.
AnchorOf(m) == m.activeBar

updateTooltipPosition(m0, env) ==
  LET m == [m0 EXCEPT !.frameRuns = @ + 1]
  IN  IF m.activeBar = NoBar \/ ~m.tooltip.show THEN m
      ELSE LET panelRect == env.panel
               barRect == env.bars[AnchorOf(m)]
           IN  IF OutOfPanel(barRect, panelRect) THEN hideTip(m)
               ELSE [m EXCEPT !.tooltip.pos = TipPosition(barRect, panelRect, env.tip),
                              !.posWrites = @ + 1,
                              !.positioned = AnchorOf(m)]

\* The callback given to requestAnimationFrame.
FrameCallback(m, env) == updateTooltipPosition([m EXCEPT !.rafId = NoRaf], env)

\* A frame runs every callback requested before it.
RECURSIVE RunCallbacks(_, _, _)
RunCallbacks(m, env, n) ==
  IF n = 0 THEN m ELSE RunCallbacks(FrameCallback(m, env), env, n - 1)

\* ------------------------------------------------------- the bar's handlers
handleShow(m, bar) == showTip(m, bar)

\* The variant a slip would produce: a click closes whatever tooltip is open.
ClickHides_anyBar(m, bar) == m.tooltip.show

\* The variant a slip would produce: a click never closes the tooltip.
ClickHides_never(m, bar) == FALSE

\* if (activeBar === bar && tooltip.classList.contains("show"))
ClickHides(m, bar) == m.activeBar = bar /\ m.tooltip.show

onBarClick(m, bar) == IF ClickHides(m, bar) THEN hideTip(m) ELSE handleShow(m, bar)

onBarKeyDown(m, bar, key) == IF key \in {"Enter", " "} THEN handleShow(m, bar) ELSE m

\* The variant a slip would produce: only the anchor's own leave or blur
\* closes the tooltip.
onBarLeave_anchorOnly(m, bar) == IF m.activeBar = bar THEN hideTip(m) ELSE m

\* bar.addEventListener("mouseleave", hideTip); likewise "blur": the bar
\* that raises the event is not looked at.
onBarLeave(m, bar) == hideTip(m)

\* ---------------------------------------------------- the document's handlers
\* event.target.closest(".timeline-bar"); target NoBar is outside every bar.
TargetInBar(target) == target # NoBar

onPointerDown(m, target) ==
  IF ~m.tooltip.show THEN m
  ELSE IF ~TargetInBar(target) THEN hideTip(m) ELSE m

onDocKeyDown(m, key) == IF key = "Escape" THEN hideTip(m) ELSE m

\* ----------------------------------------------------- payload and layouts
\* A person with two overlapping tenures starting before 1997, a person
\* with an empty list of tenures, a person with no list of tenures, and an
\* institution whose tenure ends after this year; or a payload without
\* either list.
Payloads ==
  { [personas |->
       << [id |-> "1", nombre |-> 2,
           cargos |-> << [inicio |-> <<1995, 3, 1>>, fin |-> <<2000, 6, 30>>, label |-> 1],
                         [inicio |-> <<1999, 1, 15>>, fin |-> <<2003, 12, 31>>, label |-> 2] >>],
          [id |-> "2", nombre |-> 1, cargos |-> <<>>],
          [id |-> "3", nombre |-> 3] >>,
     instituciones |->
       << [id |-> "1", nombre |-> 1,
           cargos |-> << [inicio |-> <<2010, 2, 1>>, fin |-> <<2027, 8, 31>>, label |-> 1] >>] >>],
    [personas |-> <<>>, instituciones |-> <<>>] }

\* Payloads with records whose dates are not "YYYY-MM-DD": a person with
\* a sound tenure and one whose inicio is "", a person whose only tenure
\* has no inicio, a person with sound tenures, and an institution with a
\* tenure whose fin is "2008-xx".
DirtyPayloads ==
  { [personas |->
       << [id |-> "1", nombre |-> 1,
           cargos |-> << [inicio |-> <<2001, 3, 1>>, fin |-> <<2004, 6, 30>>, label |-> 1],
                         [inicio |-> <<0>>, fin |-> <<2010, 5, 1>>, label |-> 2] >>],
          [id |-> "2", nombre |-> 2,
           cargos |-> << [inicio |-> <<>>, fin |-> <<2012, 1, 1>>, label |-> 1] >>],
          [id |-> "3", nombre |-> 3,
           cargos |-> << [inicio |-> <<1995, 3, 1>>, fin |-> <<2000, 6, 30>>, label |-> 1] >>] >>,
     instituciones |->
       << [id |-> "1", nombre |-> 1,
           cargos |-> << [inicio |-> <<2005, 1, 1>>, fin |-> <<2008, NaN>>, label |-> 1] >>] >>] }

MonthWidths == {<<>>, <<24>>}

EntityTypes == {"persona", "institucion"}

Keys == {"Enter", " ", "Escape", "a"}

NoRect == [left |-> 0, top |-> 0, width |-> 0, height |-> 0]

PanelRects ==
  { [left |-> 100, top |-> 50, width |-> 400, height |-> 300],
    [left |-> 100, top |-> 50, width |-> 100, height |-> 60] }

TipRects == { [left |-> 0, top |-> 0, width |-> 120, height |-> 40] }

\* A bar with room above it, one too close to the panel's top, one whose
\* right edge is on the panel's left edge, one near the large panel's right
\* and bottom edges, and one on each side of the large panel.
BarRects ==
  { [left |-> 200, top |-> 200, width |-> 36, height |-> 28],
    [left |-> 64, top |-> 200, width |-> 36, height |-> 28],
    [left |-> 120, top |-> 60, width |-> 36, height |-> 28],
    [left |-> 480, top |-> 350, width |-> 36, height |-> 28],
    [left |-> 0, top |-> 200, width |-> 36, height |-> 28],
    [left |-> 600, top |-> 200, width |-> 36, height |-> 28],
    [left |-> 200, top |-> 0, width |-> 36, height |-> 28],
    [left |-> 200, top |-> 400, width |-> 36, height |-> 28] }

Bars == 1..Len(rows.bars)

\* What the browser may report for the panel, the tooltip and each bar.
Layouts == [panel : PanelRects, tip : TipRects, bars : [Bars -> BarRects]]

NoEnv == [panel |-> NoRect, tip |-> NoRect, bars |-> <<>>]

\* updateTooltipPosition returns before measuring anything when there is
\* no visible anchor: the layout is then no input of the frame.
FrameInputs == IF activeBar = NoBar \/ ~tooltip.show THEN {NoEnv} ELSE Layouts

ScrollOffsets == {0}

\* ------------------------------------------------------------ the actions
Pre == [activeBar |-> activeBar, rafId |-> rafId, tooltip |-> tooltip,
        frameQueue |-> frameQueue, rafAnchor |-> rafAnchor,
        positioned |-> positioned,
        selected |-> entitySelect.value, rowsKind |-> rows.kind,
        currentStartYear |-> currentStartYear, currentEndYear |-> currentEndYear,
        scrollLeft |-> scrollLeft]

SetPage(m) ==
  /\ activeBar = m.activeBar
  /\ rafId = m.rafId
  /\ entityType = m.entityType
  /\ entitySelect = m.entitySelect
  /\ rows = m.rows
  /\ grid = m.grid
  /\ canvasWidth = m.canvasWidth
  /\ scrollLeft = m.scrollLeft
  /\ tooltip = m.tooltip
  /\ frameQueue = m.frameQueue
  /\ rafAnchor = m.rafAnchor
  /\ positioned = m.positioned
  /\ currentStartYear = m.currentStartYear
  /\ currentEndYear = m.currentEndYear

\* The handler's result becomes the next state; last records the event.
Commit(m, ev, bar, key, env) ==
  /\ activeBar' = m.activeBar
  /\ rafId' = m.rafId
  /\ entityType' = m.entityType
  /\ entitySelect' = m.entitySelect
  /\ rows' = m.rows
  /\ grid' = m.grid
  /\ canvasWidth' = m.canvasWidth
  /\ scrollLeft' = m.scrollLeft
  /\ tooltip' = m.tooltip
  /\ frameQueue' = m.frameQueue
  /\ rafAnchor' = m.rafAnchor
  /\ positioned' = m.positioned
  /\ currentStartYear' = m.currentStartYear
  /\ currentEndYear' = m.currentEndYear
  /\ last' = [ev |-> ev, bar |-> bar, key |-> key, pre |-> Pre,
              trail |-> m.trail, posWrites |-> m.posWrites,
              frameRuns |-> m.frameRuns, scrollWrites |-> m.scrollWrites,
              thrown |-> m.thrown,
              panelRect |-> env.panel, tipRect |-> env.tip,
              anchorRect |-> IF activeBar # NoBar /\ env # NoEnv
                               THEN env.bars[activeBar] ELSE NoRect]
  /\ UNCHANGED <<DATA, cssMonthWidth, stackVars, boundsVars>>

\* The page as the markup gives it, before the script's last two lines.
Blank(type) ==
  [activeBar |-> NoBar, rafId |-> NoRaf, entityType |-> type,
   entitySelect |-> [value |-> "", entityType |-> "", options |-> <<>>,
                     disabled |-> FALSE],
   rows |-> NoRows,
   grid |-> <<>>,
   canvasWidth |-> <<>>, scrollLeft |-> 0,
   tooltip |-> [show |-> FALSE, ariaHidden |-> "true", content |-> 0, pos |-> <<>>],
   frameQueue |-> 0, rafAnchor |-> NoBar, positioned |-> NoBar,
   currentStartYear |-> START_YEAR_DEFAULT, currentEndYear |-> END_YEAR_DEFAULT,
   trail |-> <<>>, posWrites |-> 0, frameRuns |-> 0, scrollWrites |-> 0,
   thrown |-> FALSE]

\* The page load as the latest event.
LoadEvent ==
  [ev |-> "load", bar |-> NoBar, key |-> "",
   pre |-> [activeBar |-> NoBar, rafId |-> NoRaf,
            tooltip |-> Blank("").tooltip, frameQueue |-> 0,
            rafAnchor |-> NoBar, positioned |-> NoBar, selected |-> "",
            rowsKind |-> "",
            currentStartYear |-> START_YEAR_DEFAULT,
            currentEndYear |-> END_YEAR_DEFAULT, scrollLeft |-> 0],
   trail |-> <<>>, posWrites |-> 0, frameRuns |-> 0, scrollWrites |-> 0,
   thrown |-> FALSE,
   panelRect |-> NoRect, tipRect |-> NoRect, anchorRect |-> NoRect]

\* populateEntities(); renderTimeline();
Init ==
  /\ DATA \in Payloads
  /\ cssMonthWidth \in MonthWidths
  /\ \E type \in EntityTypes :
       SetPage(renderTimeline(populateEntities(Blank(type), type)))
  /\ last = LoadEvent
  /\ StackIdle
  /\ BoundsIdle

\* The same load, of a payload with malformed records.
InitDirty ==
  /\ DATA \in DirtyPayloads
  /\ cssMonthWidth \in MonthWidths
  /\ \E type \in EntityTypes :
       SetPage(renderTimeline(populateEntities(Blank(type), type)))
  /\ last = LoadEvent
  /\ StackIdle
  /\ BoundsIdle

BarMouseEnter(bar) == Commit(handleShow(Cur, bar), "mouseenter", bar, "", NoEnv)

BarMouseLeave(bar) == Commit(onBarLeave(Cur, bar), "mouseleave", bar, "", NoEnv)

BarFocus(bar) == Commit(handleShow(Cur, bar), "focus", bar, "", NoEnv)

BarBlur(bar) == Commit(onBarLeave(Cur, bar), "blur", bar, "", NoEnv)

BarClick(bar) == Commit(onBarClick(Cur, bar), "click", bar, "", NoEnv)

\* A keydown on a bar runs the bar's listener, then the document's.
BarKeyDown(bar, key) ==
  Commit(onDocKeyDown(onBarKeyDown(Cur, bar, key), key), "keydown", bar, key, NoEnv)

DocKeyDown(key) == Commit(onDocKeyDown(Cur, key), "keydown", NoBar, key, NoEnv)

\* target is the bar the pointer went down in, NoBar outside every bar.
PointerDown(target) == Commit(onPointerDown(Cur, target), "pointerdown", target, "", NoEnv)

\* The scroller was scrolled: by the user to some offset, or by the script.
Scroll(x) ==
  Commit(scheduleTooltipPosition([Cur EXCEPT !.scrollLeft = x]), "scroll", NoBar, "", NoEnv)

Resize == Commit(scheduleTooltipPosition(Cur), "resize", NoBar, "", NoEnv)

AnimationFrame(env) ==
  /\ frameQueue > 0
  /\ Commit(RunCallbacks([Cur EXCEPT !.frameQueue = 0], env, frameQueue),
            "frame", NoBar, "", env)

EntityTypeChange(type) ==
  /\ type # entityType
  /\ Commit(renderTimeline(populateEntities([Cur EXCEPT !.entityType = type], type)),
            "typechange", NoBar, "", NoEnv)

EntitySelectChange(k) ==
  /\ ~entitySelect.disabled
  /\ ~entitySelect.options[k].disabled
  /\ entitySelect.options[k].value # entitySelect.value
  /\ Commit(renderTimeline([Cur EXCEPT !.entitySelect.value = entitySelect.options[k].value]),
            "select", NoBar, "", NoEnv)

TodayClick == Commit(scrollToToday(Cur), "today", NoBar, "", NoEnv)

Next ==
  \/ \E bar \in Bars : BarMouseEnter(bar)
  \/ \E bar \in Bars : BarMouseLeave(bar)
  \/ \E bar \in Bars : BarFocus(bar)
  \/ \E bar \in Bars : BarBlur(bar)
  \/ \E bar \in Bars : BarClick(bar)
  \/ \E bar \in Bars : \E key \in Keys : BarKeyDown(bar, key)
  \/ \E key \in Keys : DocKeyDown(key)
  \/ \E target \in Bars \cup {NoBar} : PointerDown(target)
  \/ \E x \in ScrollOffsets \cup {scrollLeft} : Scroll(x)
  \/ Resize
  \/ \E env \in FrameInputs : AnimationFrame(env)
  \/ \E type \in EntityTypes : EntityTypeChange(type)
  \/ \E k \in 1..Len(entitySelect.options) : EntitySelectChange(k)
  \/ TodayClick

Spec == Init /\ [][Next]_vars

SpecDirty == InitDirty /\ [][Next]_vars

\* ----------------------------------------------- the page with fair frames
\* The page of the payload with entities, at the default month width, in
\* the large panel, with each bar either well inside it or to its right.
InitLive ==
  /\ Init
  /\ DATA.personas # <<>>
  /\ cssMonthWidth = <<>>

LivePanelRects == {r \in PanelRects : r.width = 400}

LiveBarRects == {r \in BarRects : r.top = 200 /\ r.left >= 200}

LiveLayouts == [panel : LivePanelRects, tip : TipRects, bars : [Bars -> LiveBarRects]]

LiveFrameInputs == IF activeBar = NoBar \/ ~tooltip.show THEN {NoEnv} ELSE LiveLayouts

FrameStep == \E env \in LiveFrameInputs : AnimationFrame(env)

NextLive ==
  \/ \E bar \in Bars : BarMouseEnter(bar)
  \/ \E bar \in Bars : BarMouseLeave(bar)
  \/ \E bar \in Bars : BarFocus(bar)
  \/ \E bar \in Bars : BarBlur(bar)
  \/ \E bar \in Bars : BarClick(bar)
  \/ \E bar \in Bars : \E key \in Keys : BarKeyDown(bar, key)
  \/ \E key \in Keys : DocKeyDown(key)
  \/ \E target \in Bars \cup {NoBar} : PointerDown(target)
  \/ \E x \in ScrollOffsets \cup {scrollLeft} : Scroll(x)
  \/ Resize
  \/ FrameStep
  \/ \E type \in EntityTypes : EntityTypeChange(type)
  \/ \E k \in 1..Len(entitySelect.options) : EntitySelectChange(k)
  \/ TodayClick

\* The steps that empty the callback queue. The script never cancels a
\* request, so among the page's steps these are the frames and no others.
FrameRuns == frameQueue > 0 /\ frameQueue' = 0

FrameRunsIsFrameStep == [][FrameRuns => last'.ev = "frame"]_vars

\* The browser runs a requested frame callback before its next repaint: a
\* pending callback does not wait for ever.
SpecLive == InitLive /\ [][NextLive]_vars /\ WF_frameQueue(FrameRuns)

\* ============================================================== the grid
\* buildGrid alone, on every range of years within the bound and every
\* month width.
GridYears == START_YEAR_DEFAULT..(START_YEAR_DEFAULT + GridYearSpan)

GridMonthWidths == {<<>>, <<18>>, <<24>>}

InitGrid ==
  /\ currentStartYear \in GridYears
  /\ currentEndYear \in GridYears
  /\ currentStartYear <= currentEndYear
  /\ cssMonthWidth \in GridMonthWidths
  /\ grid = <<>>
  /\ canvasWidth = <<>>
  /\ activeBar = 0
  /\ rafId = 0
  /\ DATA = <<>>
  /\ entityType = ""
  /\ entitySelect = <<>>
  /\ rows = <<>>
  /\ scrollLeft = 0
  /\ tooltip = <<>>
  /\ frameQueue = 0
  /\ rafAnchor = 0
  /\ positioned = 0
  /\ last = <<>>
  /\ StackIdle
  /\ BoundsIdle

\* buildGrid(currentStartYear, currentEndYear), lines 368 and 384.
BuildGridCall ==
  /\ grid = <<>>
  /\ LET m == buildGrid([grid |-> grid, canvasWidth |-> canvasWidth],
                        currentStartYear, currentEndYear)
     IN  grid' = m.grid /\ canvasWidth' = m.canvasWidth
  /\ UNCHANGED <<activeBar, rafId, DATA, cssMonthWidth, entityType, entitySelect,
                 rows, scrollLeft, tooltip, frameQueue, rafAnchor, positioned, last,
                 stackVars, boundsVars, yearVars>>

NextGrid == BuildGridCall

SpecGrid == InitGrid /\ [][NextGrid]_vars

\* ------------------------------------------------------ stacking properties
StackOut == stacked[1]

\* Every input interval has startMonthIndex <= endMonthIndex.
StackPre == \A i \in 1..Len(items) : AbsMonth(items[i].inicio) <= AbsMonth(items[i].fin)

Intersect(a, b) == a._start <= b._end /\ b._start <= a._end

\* Number of input intervals whose closed month range contains month m.
DepthAt(m) ==
  Cardinality({i \in 1..Len(items) :
                 AbsMonth(items[i].inicio) <= m /\ m <= AbsMonth(items[i].fin)})

MaxDepth == SetMax({0} \cup {DepthAt(m) : m \in StackMonths})

\* C1: for inputs with start <= end, every input interval is placed and no
\* two distinct placed intervals of the same _row have intersecting closed
\* ranges [_start, _end]; sharing only a boundary month is intersecting.
C1_NoOverlapInRow ==
  (stacked # <<>> /\ StackPre) =>
    /\ Len(StackOut.segs) = Len(items)
    /\ \A i, j \in 1..Len(StackOut.segs) :
         (i # j /\ StackOut.segs[i]._row = StackOut.segs[j]._row)
           => ~Intersect(StackOut.segs[i], StackOut.segs[j])

\* Two intervals share a row, and two that touch in one month are in
\* different rows.
C1_Witness ==
  /\ stacked # <<>>
  /\ StackPre
  /\ \E i, j \in 1..Len(StackOut.segs) :
       i # j /\ StackOut.segs[i]._row = StackOut.segs[j]._row
  /\ \E i, j \in 1..Len(StackOut.segs) :
       /\ StackOut.segs[i]._start < StackOut.segs[i]._end
       /\ StackOut.segs[i]._end = StackOut.segs[j]._start
       /\ StackOut.segs[j]._start < StackOut.segs[j]._end
       /\ StackOut.segs[i]._row # StackOut.segs[j]._row

\* C2: for inputs with start <= end, rowCount equals the largest number of
\* input intervals that contain one same month (0 for the empty list).
C2_RowCountIsMaxDepth ==
  (stacked # <<>> /\ StackPre) => StackOut.rowCount = MaxDepth

\* Three intervals are stacked into two rows: a row is reused.
C2_Witness ==
  /\ stacked # <<>>
  /\ StackPre
  /\ Len(items) = 3
  /\ StackOut.rowCount = 2
  /\ MaxDepth = 2

\* -------------------------------------------------------- bounds properties
\* The list the latest call was given.
LastArgItems == IF callLog[Len(callLog)] = "base" THEN baseItems ELSE ExtItems

\* The year fields of the items' date strings.
StartYears(its) == {its[i].inicio[1] : i \in 1..Len(its)}
EndYears(its) == {its[i].fin[1] : i \in 1..Len(its)}

\* C3: getTimelineBounds returns startYear = min(1997, smallest start year)
\* and endYear = max(currentYear, largest end year); hence startYear <= 1997
\* and endYear >= currentYear, also when every item is inside the defaults.
C3_BoundsAreMinMax ==
  callLog # <<>> =>
    /\ lastBounds.startYear = SetMin({START_YEAR_DEFAULT} \cup StartYears(LastArgItems))
    /\ lastBounds.endYear = SetMax({END_YEAR_DEFAULT} \cup EndYears(LastArgItems))
    /\ lastBounds.startYear <= START_YEAR_DEFAULT
    /\ lastBounds.endYear >= END_YEAR_DEFAULT

\* A non-empty list lying strictly inside the default window was resolved
\* to the default window.
C3_Witness ==
  /\ callLog # <<>>
  /\ Len(LastArgItems) > 0
  /\ \A y \in StartYears(LastArgItems) \cup EndYears(LastArgItems) :
       START_YEAR_DEFAULT < y /\ y < END_YEAR_DEFAULT
  /\ lastBounds = [startYear |-> START_YEAR_DEFAULT, endYear |-> END_YEAR_DEFAULT]

\* C4: the range returned for L plus x contains the range returned for L,
\* and every call on one list returns the same bounds whatever was called
\* before and whatever current bounds were stored.
C4_MonotonicIdempotent ==
  /\ \A rb \in resultsBase : \A re \in resultsExt :
       re.startYear <= rb.startYear /\ re.endYear >= rb.endYear
  /\ Cardinality(resultsBase) <= 1
  /\ Cardinality(resultsExt) <= 1

\* L was resolved, then L plus x to a strictly wider range, then L again.
C4_Witness ==
  /\ callLog = <<"base", "ext", "base">>
  /\ \E rb \in resultsBase : \E re \in resultsExt :
       re.startYear < rb.startYear /\ re.endYear > rb.endYear

\* ------------------------------------------------------- tooltip properties
Hidden == activeBar = NoBar /\ ~tooltip.show
Shown(bar) == activeBar = bar /\ tooltip.show

WasShown(bar) == last.pre.activeBar = bar /\ last.pre.tooltip.show

\* The latest event was a show request on the bar last.bar.
ShowRequest ==
  /\ last.bar # NoBar
  /\ \/ last.ev \in {"mouseenter", "focus", "click"}
     \/ last.ev = "keydown" /\ last.key \in {"Enter", " "}

\* A show request on B arrived in SHOWN(A), A # B.
SwitchRequest ==
  /\ ShowRequest
  /\ last.pre.tooltip.show
  /\ last.pre.activeBar \notin {NoBar, last.bar}

\* C5: a show request for B in SHOWN(A) leads to SHOWN(B), and after no
\* statement of the handler is the tooltip hidden or activeBar null.
C5_SwitchWithoutHide ==
  SwitchRequest =>
    /\ Shown(last.bar)
    /\ last.trail # <<>>
    /\ \A i \in 1..Len(last.trail) : last.trail[i][1] # NoBar /\ last.trail[i][2]

\* A click on B in SHOWN(A) has led to SHOWN(B).
C5_Witness == SwitchRequest /\ last.ev = "click" /\ Shown(last.bar)

\* C6: only a click on the visible anchor closes the tooltip; hover, focus
\* and Enter/Space on it keep SHOWN(bar); a click on any other bar, or with
\* no tooltip open, yields SHOWN(that bar).
C6_ToggleOnlyByClick ==
  /\ (last.ev = "click" /\ WasShown(last.bar)) => Hidden
  /\ (last.ev = "click" /\ ~WasShown(last.bar)) => Shown(last.bar)
  /\ (ShowRequest /\ last.ev # "click" /\ WasShown(last.bar)) => Shown(last.bar)

\* The visible anchor was clicked and the tooltip closed.
C6_Witness == last.ev = "click" /\ WasShown(last.bar) /\ Hidden

\* Two closed boxes have a point in common.
RectsIntersect(a, b) ==
  /\ a.left <= Right(b)
  /\ b.left <= Right(a)
  /\ a.top <= Bottom(b)
  /\ b.top <= Bottom(a)

\* A frame callback ran in SHOWN(anchor).
FrameWhileShown ==
  last.ev = "frame" /\ last.pre.activeBar # NoBar /\ last.pre.tooltip.show

\* C7: a frame callback that runs in SHOWN(anchor) while the anchor's box
\* does not intersect the panel's hides the tooltip and writes no left/top.
C7_PositionalGuard ==
  (FrameWhileShown /\ ~RectsIntersect(last.anchorRect, last.panelRect)) =>
    /\ Hidden
    /\ last.posWrites = 0
    /\ tooltip.pos = last.pre.tooltip.pos

\* The anchor was to the right of the panel when the frame ran.
C7_Witness ==
  /\ FrameWhileShown
  /\ last.anchorRect.left > Right(last.panelRect)
  /\ Hidden

\* C8: a pointerdown outside every bar, an Escape keydown and a re-render
\* each leave HIDDEN; a pointerdown inside a bar changes nothing of the
\* tooltip.
C8_ExternalDismiss ==
  /\ (last.ev = "pointerdown" /\ last.bar = NoBar) => Hidden
  /\ (last.ev = "keydown" /\ last.key = "Escape") => Hidden
  /\ last.ev \in {"select", "typechange", "load"} => Hidden
  /\ (last.ev = "pointerdown" /\ last.bar # NoBar) =>
       (activeBar = last.pre.activeBar /\ tooltip = last.pre.tooltip)

\* An entity was selected while a tooltip was open.
C8_Witness == last.ev = "select" /\ last.pre.tooltip.show /\ Hidden

\* C9: at most one frame callback is pending; a trigger that arrives while
\* one is pending requests no other; a frame runs updateTooltipPosition
\* exactly once.
C9_Coalesced ==
  /\ frameQueue <= 1
  /\ (frameQueue = 1) <=> (rafId # NoRaf)
  /\ (last.ev # "frame" /\ last.pre.frameQueue >= 1) => frameQueue = last.pre.frameQueue
  /\ last.ev = "frame" => (last.frameRuns = 1 /\ frameQueue = 0)

\* A scroll arrived while a callback was pending.
C9_Witness == last.ev = "scroll" /\ last.pre.frameQueue = 1 /\ frameQueue = 1

\* C10: a frame callback that runs in HIDDEN changes nothing of the
\* tooltip; one that runs in SHOWN(B) measures B, whatever bar was the
\* anchor when the callback was requested.
C10_StaleCallback ==
  /\ (last.ev = "frame" /\ ~last.pre.tooltip.show) =>
       /\ tooltip = last.pre.tooltip
       /\ activeBar = last.pre.activeBar
       /\ last.posWrites = 0
  /\ (FrameWhileShown /\ RectsIntersect(last.anchorRect, last.panelRect)) =>
       /\ Shown(last.pre.activeBar)
       /\ last.posWrites = 1
       /\ tooltip.pos = TipPosition(last.anchorRect, last.panelRect, last.tipRect)

\* The callback was requested for another anchor than the one it measured.
C10_Witness ==
  /\ FrameWhileShown
  /\ last.pre.rafAnchor \notin {NoBar, last.pre.activeBar}
  /\ Shown(last.pre.activeBar)
  /\ last.posWrites = 1

\* ------------------------------------------------------ rendering properties
\* The entries of the current kind's list that the select's value names.
SelectedIndex == FindById(ListOf(entityType), entitySelect.value)
HasSelection == SelectedIndex # {}
SelectedEntity == ListOf(entityType)[SetMin(SelectedIndex)]
SelectedItems == CargosOf(SelectedEntity)

Defaults == [startYear |-> START_YEAR_DEFAULT, endYear |-> END_YEAR_DEFAULT]

\* A date string with a numeric year and a numeric month.
Parseable(s) == Len(s) >= 2 /\ ~IsNaN(s[1]) /\ ~IsNaN(s[2])
Sound(it) == Parseable(it.inicio) /\ Parseable(it.fin)
SoundItems(its) == SelectSeq(its, Sound)

\* C11: a record whose inicio or fin is unparseable is dropped before
\* layout: the bars of a selected entity are those of its sound records, one
\* each, and the bounds are the bounds of its sound records.
C11_MalformedDropped ==
  HasSelection =>
    /\ \A k \in 1..Len(rows.bars) : Sound(rows.bars[k])
    /\ Len(rows.bars) = Len(SoundItems(SelectedItems))
    /\ currentStartYear = getTimelineBounds(SoundItems(SelectedItems)).startYear
    /\ currentEndYear = getTimelineBounds(SoundItems(SelectedItems)).endYear

\* The latest event ran renderTimeline.
Rendered == last.ev \in {"load", "select", "typechange"}

\* C12: no rendering pass ends in an exception; each leaves a lane or the
\* empty-state.
C12_RenderCompletes ==
  Rendered => (~last.thrown /\ rows.kind \in {"empty", "persona", "institucion"})

\* An entity with an empty or absent list of records was selected.
EmptySelection == last.ev = "select" /\ HasSelection /\ Len(SelectedItems) = 0

\* C13: selecting an entity whose list is empty or absent gives the default
\* bounds, a grid built for them, the empty-state and no bar, raises nothing
\* and does not touch the scroll offset.
C13_EmptyList ==
  EmptySelection =>
    /\ currentStartYear = START_YEAR_DEFAULT
    /\ currentEndYear = END_YEAR_DEFAULT
    /\ grid = <<START_YEAR_DEFAULT, END_YEAR_DEFAULT>>
    /\ rows.kind = "empty"
    /\ rows.message = "nocargos"
    /\ Len(rows.bars) = 0
    /\ ~last.thrown
    /\ last.scrollWrites = 0
    /\ scrollLeft = last.pre.scrollLeft

\* An entity without a cargos field was selected after one whose render had
\* scrolled the view.
C13_Witness ==
  /\ EmptySelection
  /\ "cargos" \notin DOMAIN SelectedEntity
  /\ last.pre.rowsKind = "persona"
  /\ scrollLeft > 0
  /\ rows.kind = "empty"

\* The month width the page is configured with: --month-width, or 18.
ConfiguredWidth == IF cssMonthWidth = <<>> THEN 18 ELSE cssMonthWidth[1]

\* Months in the range of years the grid was built for.
GridMonths == (grid[2] - grid[1] + 1) * 12

\* C14 as stated: the canvas width is 10 + months * w + 20, which is 462
\* for 2000..2001 and w = 18.
C14_CanvasWidthAsStated ==
  grid # <<>> => canvasWidth = <<10 + GridMonths * ConfiguredWidth + 20>>

\* C14 as the code has it: the canvas width is months * w + 20, which is
\* 452 for 2000..2001 and w = 18.
C14_CanvasWidth ==
  grid # <<>> =>
    /\ canvasWidth = <<GridMonths * ConfiguredWidth + 20>>
    /\ (grid = <<2000, 2001>> /\ ConfiguredWidth = 18) => canvasWidth = <<452>>

\* The grid was built for 2000..2001 with the default month width.
C14_Witness ==
  /\ grid = <<2000, 2001>>
  /\ cssMonthWidth = <<>>
  /\ canvasWidth = <<452>>

\* C15: every bar has left = 10 + start * w, width = max(w, (end + 1) * w -
\* left - 2) and top = 6 + row * (barHeight + rowGap), w being the month
\* width.
C15_BarGeometry ==
  HasSelection =>
    LET st == stackOverlaps(SelectedItems, currentStartYear)
        w == ConfiguredWidth
    IN  /\ Len(rows.bars) = Len(st.segs)
        /\ \A k \in 1..Len(rows.bars) :
             /\ rows.bars[k].left = 10 + st.segs[k]._start * w
             /\ rows.bars[k].width =
                  MathMax(w, (st.segs[k]._end + 1) * w - rows.bars[k].left - 2)
             /\ rows.bars[k].top = 6 + st.segs[k]._row * (LANE_BAR_H + STACK_GAP)

\* C16: one month width w serves the whole pass: the line of month i is at
\* 10 + i * w, a bar starting in month i has left = 10 + i * w, and the
\* canvas width and the render's scroll offset are computed with w.
C16_OneMonthWidth ==
  LET w == ConfiguredWidth
      lines == GridLines(grid[1], grid[2])
  IN  /\ \A k \in 1..Len(lines) : lines[k].left = 10 + (k - 1) * w
      /\ \A k \in 1..Len(rows.bars) :
           rows.bars[k].left =
             10 + monthIndex(parseDate(rows.bars[k].inicio), currentStartYear) * w
      /\ canvasWidth = <<GridMonths * w + 20>>
      /\ (last.ev = "select" /\ last.scrollWrites = 1) =>
           scrollLeft = MathMax(0, 120 * w - 200)

\* A recompute wrote the tooltip's position.
Positioned == last.ev = "frame" /\ last.posWrites = 1

\* The recompute took the placement below the anchor.
Flipped == last.anchorRect.top - last.panelRect.top - last.tipRect.height - 10 < 12

\* C17: after a recompute that does not force-hide, left and top are >= 12,
\* and, when the panel is at least the tooltip's size plus 24 in an axis,
\* at most the panel's size minus the tooltip's minus 12 in that axis.
C17_ClampedInside ==
  Positioned =>
    LET p == 12
        maxLeft == last.panelRect.width - last.tipRect.width - p
        maxTop == last.panelRect.height - last.tipRect.height - p
    IN  /\ tooltip.pos[1] >= p
        /\ tooltip.pos[2] >= p
        /\ (last.panelRect.width >= last.tipRect.width + 2 * p) => tooltip.pos[1] <= maxLeft
        /\ (last.panelRect.height >= last.tipRect.height + 2 * p) => tooltip.pos[2] <= maxTop

\* The placement below was taken in a panel smaller than the tooltip, and
\* both axes were held at the padding.
C17_Witness ==
  /\ Positioned
  /\ Flipped
  /\ last.panelRect.width < last.tipRect.width + 24
  /\ last.panelRect.height < last.tipRect.height + 24
  /\ tooltip.pos = <<12, 12>>

\* What the bounds must be for the current selection alone.
ExpectedBounds == IF HasSelection THEN getTimelineBounds(SelectedItems) ELSE Defaults

\* C18: the stored bounds, the grid and the offset "today" scrolls to are
\* those of the currently selected entity's records, or the defaults when
\* none is selected, whatever was selected before.
C18_NoCarryOver ==
  /\ currentStartYear = ExpectedBounds.startYear
  /\ currentEndYear = ExpectedBounds.endYear
  /\ grid = <<ExpectedBounds.startYear, ExpectedBounds.endYear>>
  /\ last.ev = "today" =>
       scrollLeft =
         MathMax(0, ((Now.y - ExpectedBounds.startYear) * 12 + Now.mo) * ConfiguredWidth - 260)

\* An entity was selected after another whose bounds started earlier.
C18_Witness ==
  /\ last.ev = "select"
  /\ last.pre.selected # ""
  /\ HasSelection
  /\ last.pre.currentStartYear < currentStartYear
  /\ currentStartYear = ExpectedBounds.startYear

\* The entity the option of value v stands for, in the current kind's list.
EntityOf(v) == ListOf(entityType)[SetMin(FindById(ListOf(entityType), v))]

\* C19: after a type switch the select lists the entities of the new kind
\* in name order behind the selected placeholder, no entity is selected,
\* the view is the empty-state without a lane, the bounds are the defaults
\* and the tooltip is HIDDEN.
C19_TypeSwitchResets ==
  last.ev = "typechange" =>
    LET list == ListOf(entityType)
        opts == entitySelect.options
    IN  /\ entitySelect.entityType = entityType
        /\ Len(opts) = 1 + (IF Len(list) = 0 THEN 1 ELSE Len(list))
        /\ opts[1] = [value |-> "", disabled |-> TRUE]
        /\ {opts[i + 1].value : i \in 1..Len(list)} = {list[i].id : i \in 1..Len(list)}
        /\ \A i, j \in 1..Len(list) :
             i < j => EntityOf(opts[i + 1].value).nombre <= EntityOf(opts[j + 1].value).nombre
        /\ entitySelect.value = ""
        /\ ~HasSelection
        /\ rows.kind = "empty"
        /\ Len(rows.bars) = 0
        /\ currentStartYear = START_YEAR_DEFAULT
        /\ currentEndYear = END_YEAR_DEFAULT
        /\ Hidden

\* The kind was switched while an entity was selected and its tooltip open.
C19_Witness ==
  /\ last.ev = "typechange"
  /\ last.pre.selected # ""
  /\ last.pre.tooltip.show
  /\ last.pre.currentStartYear # START_YEAR_DEFAULT
  /\ Len(ListOf(entityType)) > 0
  /\ Hidden
  /\ entitySelect.value = ""

\* What the grid holds: its lines and its year labels.
Lines == GridLines(grid[1], grid[2])
Labels == GridLabels(grid[1], grid[2])

\* Line i (from 0) is a year boundary exactly when i mod 12 = 0, and there
\* is one label per year, at that year's boundary line plus 6.
LinesAndLabels ==
  /\ \A k \in 1..Len(Lines) : Lines[k].isYear <=> ((k - 1) % 12 = 0)
  /\ Len(Labels) = grid[2] - grid[1] + 1
  /\ \A j \in 1..Len(Labels) :
       /\ Labels[j].text = grid[1] + (j - 1)
       /\ Lines[(j - 1) * 12 + 1].isYear
       /\ Labels[j].left = Lines[(j - 1) * 12 + 1].left + 6

\* C20 as stated: the grid has one line per month of the range, months in
\* all.
C20_OneLinePerMonth ==
  grid # <<>> => (Len(Lines) = GridMonths /\ LinesAndLabels)

\* C20 as the code has it: the grid has months + 1 lines, the last one
\* closing the last year.
C20_LinesWithClosing ==
  grid # <<>> =>
    /\ Len(Lines) = GridMonths + 1
    /\ Lines[Len(Lines)].isYear
    /\ LinesAndLabels

\* A grid of more than one year was built.
C20_Witness ==
  /\ grid # <<>>
  /\ grid[1] < grid[2]
  /\ Len(Lines) = GridMonths + 1
  /\ Len(Labels) >= 2

\* ------------------------------------------------------ first-fit properties
Placed == StackOut.segs

\* The intervals placed in row r before the i-th.
EarlierInRow(i, r) == {k \in 1..(i - 1) : Placed[k]._row = r}

\* rowsEnd[r] when the i-th interval is placed: the end of the latest
\* interval put in row r before it.
RowEndBefore(i, r) == Placed[SetMax(EarlierInRow(i, r))]._end

\* C21: the intervals are placed in order of (start, end) ascending, each in
\* the lowest row whose last end is strictly less than its start; hence,
\* for inputs with start <= end, an interval in row r > 0 intersects an
\* interval of every row below r.
C21_FirstFitLowestRow ==
  stacked # <<>> =>
    /\ \A i, j \in 1..Len(Placed) :
         i < j => \/ Placed[i]._start < Placed[j]._start
                  \/ /\ Placed[i]._start = Placed[j]._start
                     /\ Placed[i]._end <= Placed[j]._end
    /\ \A i \in 1..Len(Placed) :
         /\ \A r \in 0..(Placed[i]._row - 1) :
              /\ EarlierInRow(i, r) # {}
              /\ RowEndBefore(i, r) >= Placed[i]._start
         /\ EarlierInRow(i, Placed[i]._row) # {} =>
              RowEndBefore(i, Placed[i]._row) < Placed[i]._start
    /\ StackPre =>
         \A i \in 1..Len(Placed) : \A r \in 0..(Placed[i]._row - 1) :
           \E k \in 1..Len(Placed) :
             k # i /\ Placed[k]._row = r /\ Intersect(Placed[k], Placed[i])

\* An interval went back to row 0 after row 1 had been opened, and the
\* interval in row 1 intersects one in row 0.
C21_Witness ==
  /\ stacked # <<>>
  /\ StackPre
  /\ \E i \in 1..Len(Placed) :
       /\ Placed[i]._row = 0
       /\ EarlierInRow(i, 0) # {}
       /\ EarlierInRow(i, 1) # {}
       /\ RowEndBefore(i, 1) < Placed[i]._start

\* --------------------------------------------------- tooltip state properties
\* C22: in every reachable state the tooltip has the class "show" exactly
\* when activeBar is not null.
C22_HalvesAgree == tooltip.show <=> (activeBar # NoBar)

\* A tooltip closed by the positional guard was opened again from the
\* keyboard.
C22_Witness ==
  /\ last.ev = "keydown"
  /\ last.key = "Enter"
  /\ ~last.pre.tooltip.show
  /\ last.pre.activeBar = NoBar
  /\ last.pre.tooltip.pos # <<>>
  /\ tooltip.show
  /\ activeBar = last.bar

\* C25: a mouseleave or blur on any bar leaves HIDDEN, also when the anchor
\* is another bar.
C25_LeaveHidesAlways == last.ev \in {"mouseleave", "blur"} => Hidden

\* The pointer left bar A while the tooltip was shown for bar B, opened by
\* focus or otherwise.
C25_Witness ==
  /\ last.ev = "mouseleave"
  /\ last.pre.tooltip.show
  /\ last.pre.activeBar \notin {NoBar, last.bar}
  /\ Hidden

\* ------------------------------------------------------ bar geometry properties
\* The bar of the k-th placed interval is in row r.
BarRow(k) == Placed[k]._row

\* C24: for inputs with start <= end, of two bars in one row the earlier
\* ends at or before the later's left (also a single-month bar, whose width
\* is raised to one month), and bars of different rows lie in the bands
\* [6 + r * 34, 6 + r * 34 + 28], which are 6 apart.
C24_BarsDisjoint ==
  (stacked # <<>> /\ StackPre) =>
    /\ Len(laneBars) = Len(Placed)
    /\ \A a, b \in 1..Len(laneBars) :
         (a < b /\ BarRow(a) = BarRow(b)) =>
           laneBars[a].left + laneBars[a].width <= laneBars[b].left
    /\ \A a \in 1..Len(laneBars) :
         laneBars[a].top = 6 + BarRow(a) * (LANE_BAR_H + STACK_GAP)
    /\ \A a, b \in 1..Len(laneBars) :
         BarRow(a) < BarRow(b) =>
           laneBars[a].top + LANE_BAR_H + STACK_GAP <= laneBars[b].top

\* A single-month bar, raised to one month's width, is followed in its row
\* by a bar that starts in the next month; and there is a second row.
C24_Witness ==
  /\ stacked # <<>>
  /\ StackPre
  /\ \E a, b \in 1..Len(laneBars) :
       /\ a < b
       /\ BarRow(a) = BarRow(b)
       /\ Placed[a]._start = Placed[a]._end
       /\ laneBars[a].width = MONTH_PX
       /\ laneBars[a].left + laneBars[a].width = laneBars[b].left
  /\ \E c \in 1..Len(laneBars) : BarRow(c) = 1

\* ------------------------------------------------------- positioning properties
\* The bars a lane of the payload holds.
BarIds == 1..2

\* The tooltip is SHOWN(b) and no recompute has run since b became the
\* anchor.
Unpositioned(b) == tooltip.show /\ activeBar = b /\ positioned # b

\* While the shown anchor has not been positioned, a callback is pending.
PendingUntilPositioned ==
  (tooltip.show /\ activeBar # NoBar /\ positioned # activeBar) =>
    (frameQueue >= 1 /\ rafId # NoRaf)

\* C23 as stated: a callback is pending until the shown anchor has been
\* positioned, and, the frame callback being run fairly, SHOWN(bar) leads
\* to a recompute for bar or to HIDDEN.
C23_AsStated ==
  /\ []PendingUntilPositioned
  /\ \A b \in BarIds : Unpositioned(b) ~> (positioned = b \/ Hidden)

\* C23 as the code has it: a callback is pending until the shown anchor has
\* been positioned, and SHOWN(bar) leads to a recompute for bar, to HIDDEN,
\* or to SHOWN of another bar, whose request took the pending callback over.
C23_EventuallyPositioned ==
  /\ []PendingUntilPositioned
  /\ \A b \in BarIds : Unpositioned(b) ~> (positioned = b \/ ~Shown(b))

\* A show request for B arrived while the callback requested for A was
\* still pending: B is shown, not yet positioned, and that callback is the
\* one pending.
C23_Witness ==
  /\ ShowRequest
  /\ last.pre.frameQueue = 1
  /\ last.pre.rafAnchor \notin {NoBar, last.bar}
  /\ Shown(last.bar)
  /\ positioned = NoBar
  /\ frameQueue = 1
  /\ rafAnchor # activeBar

====
